---- MODULE Spec2Model ----
(***************************************************************************)
(* A model of ubi's Forgejo backend (ubi/src/forgejo.rs): the Forgejo      *)
(* instance, release_info_url, maybe_add_token_header and fetch_assets.    *)
(*                                                                         *)
(* Strings are sequences of bytes (0..255), so that splitting, pushing a   *)
(* path segment (with its percent-encoding), formatting the Authorization  *)
(* value and validating it as a header value are computed byte by byte.    *)
(***************************************************************************)
EXTENDS Naturals, Sequences, FiniteSets

VARIABLES forge, pc, calls, sent, resp, ret

vars == <<forge, pc, calls, sent, resp, ret>>

(***************************************************************************)
(* Bounds of the model.                                                    *)
(***************************************************************************)
MaxNameLen == 4
MaxTagLen == 2
MaxTokenLen == 3
MaxAssets == 2
MaxCalls == 2

(***************************************************************************)
(* Byte strings.                                                           *)
(***************************************************************************)
\* All byte strings over alphabet A with lo <= length <= hi.
StringsOver(A, lo, hi) == UNION {[1..n -> A] : n \in lo..hi}

IsPrefix(p, s) == Len(p) <= Len(s) /\ SubSeq(s, 1, Len(p)) = p

IsSuffix(t, s) == Len(t) <= Len(s) /\ SubSeq(s, Len(s) - Len(t) + 1, Len(s)) = t

\* Option<T>
None == [some |-> FALSE, val |-> <<>>]

Some(v) == [some |-> TRUE, val |-> v]

\* The literals of the source, as bytes.
SLASH == <<47>>                                   \* '/'

REPOS == <<114, 101, 112, 111, 115>>              \* "repos"

RELEASES == <<114, 101, 108, 101, 97, 115, 101, 115>>   \* "releases"

TAGS == <<116, 97, 103, 115>>                     \* "tags"

LATEST == <<108, 97, 116, 101, 115, 116>>         \* "latest"

TOKEN_PREFIX == <<116, 111, 107, 101, 110, 32>>   \* "token " of format!("token {token}")

AUTHORIZATION == "authorization"

(***************************************************************************)
(* str::split('/'): the segments between the separators; a string with n   *)
(* separators has n + 1 segments, empty ones included.                     *)
(***************************************************************************)
RECURSIVE Split(_, _)
Split(s, sep) ==
    IF \A i \in 1..Len(s) : s[i] # sep
    THEN <<s>>
    ELSE LET i == CHOOSE k \in 1..Len(s) :
                      s[k] = sep /\ \A j \in 1..(k - 1) : s[j] # sep
         IN <<SubSeq(s, 1, i - 1)>> \o Split(SubSeq(s, i + 1, Len(s)), sep)

(***************************************************************************)
(* url::Url, as its serialization: everything before the path              *)
(* (scheme, "://", authority), and the path.  A URL without a hierarchical *)
(* path (mailto:...) cannot be a base and has no path segments.            *)
(***************************************************************************)
Url(prefix, path, cbab) == [prefix |-> prefix, path |-> path, cannot_be_a_base |-> cbab]

\* Upper-case hexadecimal digit of n in 0..15, as a byte.
HexDigit(n) == IF n < 10 THEN 48 + n ELSE 55 + n

\* The percent-encode set of a pushed path segment of a special (http, https)
\* URL: controls and non-ASCII, space, double quote, # < > ? backquote { } and, for a segment,
\* / % and \.
InPathSegmentSet(b) ==
    \/ b < 32
    \/ b >= 127
    \/ b \in {32, 34, 35, 60, 62, 63, 96, 123, 125}
    \/ b \in {47, 37, 92}

RECURSIVE PercentEncode(_)
PercentEncode(s) ==
    IF s = <<>>
    THEN <<>>
    ELSE (IF InPathSegmentSet(Head(s))
          THEN <<37, HexDigit(Head(s) \div 16), HexDigit(Head(s) % 16)>>
          ELSE <<Head(s)>>) \o PercentEncode(Tail(s))

\* "." and "..", which PathSegmentsMut::push ignores.
IsDotSegment(seg) == seg = <<46>> \/ seg = <<46, 46>>

\* PathSegmentsMut::push(segment): a "." or ".." segment is ignored; otherwise
\* a '/' is appended unless the path is just "/", then the segment,
\* percent-encoded.
Push(u, seg) ==
    IF IsDotSegment(seg)
    THEN u
    ELSE LET withSlash == IF Len(u.path) > 1 \/ Len(u.path) = 0
                          THEN u.path \o SLASH
                          ELSE u.path
         IN [u EXCEPT !.path = withSlash \o PercentEncode(seg)]

RECURSIVE PushAll(_, _)
PushAll(u, segs) ==
    IF segs = <<>> THEN u ELSE PushAll(Push(u, Head(segs)), Tail(segs))

(***************************************************************************)
(* Results of a call: a returned value, a returned error, or a panic.      *)
(***************************************************************************)
OkUrl(u) == [kind |-> "Ok", url |-> u]

Panic(msg) == [kind |-> "Panic", msg |-> msg]

Err(e) == [kind |-> "Err", err |-> e]

(***************************************************************************)
(* Forgejo::new and the struct.                                            *)
(***************************************************************************)
new(project_name, tag, api_base_url, token) ==
    [project_name |-> project_name, tag |-> tag,
     api_base_url |-> api_base_url, token |-> token]

(***************************************************************************)
(* Forgejo::release_info_url.                                              *)
(***************************************************************************)
\* Mutant: the tag is pushed straight after "releases", without "tags".
TagOrLatestWithoutTags(f, u) ==
    IF f.tag.some
    THEN PushAll(u, <<f.tag.val>>)
    ELSE PushAll(u, <<LATEST>>)

\* if let Some(tag) = &self.tag { push("tags").push(tag) } else { push("latest") }
TagOrLatest(f, u) ==
    IF f.tag.some
    THEN PushAll(u, <<TAGS, f.tag.val>>)
    ELSE PushAll(u, <<LATEST>>)

\* Mutant: the repository is pushed before the owner.
release_info_url_swapped(f) ==
    LET parts == Split(f.project_name, 47)
    IN IF Len(parts) < 2
       THEN Panic("called Option::unwrap() on a None value")
       ELSE IF f.api_base_url.cannot_be_a_base
       THEN Panic("could not get path segments for url")
       ELSE OkUrl(TagOrLatest(f,
                PushAll(f.api_base_url, <<REPOS, parts[2], parts[1], RELEASES>>)))

\* Mutant: owner and repo are the last two segments (rsplit) instead of the
\* first two.
release_info_url_last_two(f) ==
    LET parts == Split(f.project_name, 47)
    IN IF Len(parts) < 2
       THEN Panic("called Option::unwrap() on a None value")
       ELSE IF f.api_base_url.cannot_be_a_base
       THEN Panic("could not get path segments for url")
       ELSE OkUrl(TagOrLatest(f,
                PushAll(f.api_base_url,
                        <<REPOS, parts[Len(parts) - 1], parts[Len(parts)], RELEASES>>)))

release_info_url(f) ==
    LET parts == Split(f.project_name, 47)
    IN IF Len(parts) < 2
       THEN Panic("called Option::unwrap() on a None value")
       ELSE IF f.api_base_url.cannot_be_a_base
       THEN Panic("could not get path segments for url")
       ELSE OkUrl(TagOrLatest(f,
                PushAll(f.api_base_url, <<REPOS, parts[1], parts[2], RELEASES>>)))

(***************************************************************************)
(* reqwest::RequestBuilder: the request so far.  header() appends.         *)
(***************************************************************************)
RequestBuilder(url, headers) == [method |-> "GET", url |-> url, headers |-> headers]

Header(name, value, sensitive) == [name |-> name, value |-> value, sensitive |-> sensitive]

header(rb, name, value) ==
    [rb EXCEPT !.headers = Append(rb.headers, Header(name, value.bytes, value.sensitive))]

OkBuilder(rb) == [kind |-> "Ok", req |-> rb]

\* Mutant: the tab is not excepted.
is_valid_no_tab(b) == b >= 32 /\ b # 127

\* http::HeaderValue: is_valid(b) = b >= 32 && b != 127 || b == b'\t'
is_valid(b) == (b >= 32 /\ b # 127) \/ b = 9

\* HeaderValue::from_str: an error if any byte is not valid, else the bytes.
HeaderValue_from_str(s) ==
    IF \E i \in 1..Len(s) : ~is_valid(s[i])
    THEN Err("InvalidToken")
    ELSE [kind |-> "Ok", value |-> [bytes |-> s, sensitive |-> FALSE]]

set_sensitive(v, flag) == [v EXCEPT !.sensitive = flag]

(***************************************************************************)
(* Forgejo::maybe_add_token_header.                                        *)
(***************************************************************************)
\* Mutant: GitHub's scheme, "Bearer {token}".
maybe_add_token_header_bearer(f, req_builder) ==
    IF f.token.some
    THEN LET bearer == <<66, 101, 97, 114, 101, 114, 32>> \o f.token.val
             auth_val == HeaderValue_from_str(bearer)
         IN IF auth_val.kind = "Err"
            THEN auth_val
            ELSE OkBuilder(header(req_builder, AUTHORIZATION,
                                  set_sensitive(auth_val.value, TRUE)))
    ELSE OkBuilder(req_builder)

\* Mutant: an absent token is sent as the empty token (unwrap_or_default).
maybe_add_token_header_default(f, req_builder) ==
    LET bearer == TOKEN_PREFIX \o f.token.val
        auth_val == HeaderValue_from_str(bearer)
    IN IF auth_val.kind = "Err"
       THEN auth_val
       ELSE OkBuilder(header(req_builder, AUTHORIZATION,
                             set_sensitive(auth_val.value, TRUE)))

maybe_add_token_header(f, req_builder) ==
    IF f.token.some
    THEN LET bearer == TOKEN_PREFIX \o f.token.val
             auth_val == HeaderValue_from_str(bearer)
         IN IF auth_val.kind = "Err"
            THEN auth_val
            ELSE OkBuilder(header(req_builder, AUTHORIZATION,
                                  set_sensitive(auth_val.value, TRUE)))
    ELSE OkBuilder(req_builder)

(***************************************************************************)
(* Url::parse, for the URL strings of the model: a scheme and ':' are      *)
(* required (a string without them is relative, an error without a base);  *)
(* scheme and host are lower-cased; after "//" comes the host, then the    *)
(* path, "/" when it is empty.  Anything else after the scheme is an       *)
(* opaque path: the URL cannot be a base.                                  *)
(***************************************************************************)
IsUpper(c) == c >= 65 /\ c <= 90

IsAlpha(c) == IsUpper(c) \/ (c >= 97 /\ c <= 122)

IsSchemeChar(c) == IsAlpha(c) \/ (c >= 48 /\ c <= 57) \/ c \in {43, 45, 46}

ToLower(s) == [i \in 1..Len(s) |-> IF IsUpper(s[i]) THEN s[i] + 32 ELSE s[i]]

\* Index of the ':' ending the scheme, 0 if the string has no scheme.
SchemeEnd(s) ==
    IF \E i \in 2..Len(s) :
            s[i] = 58 /\ IsAlpha(s[1]) /\ \A j \in 1..(i - 1) : IsSchemeChar(s[j])
    THEN CHOOSE i \in 2..Len(s) :
            s[i] = 58 /\ \A j \in 1..(i - 1) : s[j] # 58
    ELSE 0

\* Index of the first '/' of s, Len(s) + 1 if there is none.
FirstSlash(s) ==
    IF \E i \in 1..Len(s) : s[i] = 47
    THEN CHOOSE i \in 1..Len(s) : s[i] = 47 /\ \A j \in 1..(i - 1) : s[j] # 47
    ELSE Len(s) + 1

Url_parse(s) ==
    LET e == SchemeEnd(s)
        scheme == ToLower(SubSeq(s, 1, e))
        rest == SubSeq(s, e + 1, Len(s))
    IN IF e = 0
       THEN Err("RelativeUrlWithoutBase")
       ELSE IF IsPrefix(<<47, 47>>, rest)
       THEN LET after == SubSeq(rest, 3, Len(rest))
                k == FirstSlash(after)
                host == ToLower(SubSeq(after, 1, k - 1))
                path == SubSeq(after, k, Len(after))
            IN IF host = <<>>
               THEN Err("EmptyHost")
               ELSE OkUrl(Url(scheme \o <<47, 47>> \o host,
                              IF path = <<>> THEN SLASH ELSE path, FALSE))
       ELSE OkUrl(Url(scheme, rest, TRUE))

(***************************************************************************)
(* The release JSON, and serde's decoding of it into Release.              *)
(* A body is either not JSON at all or an object that may hold "assets",   *)
(* an array of objects that may hold "name" and "browser_download_url"     *)
(* strings, and may hold other fields.                                     *)
(***************************************************************************)
NotJson == [json |-> FALSE, has_assets |-> FALSE, assets |-> <<>>, extra |-> FALSE]

JsonRelease(has_assets, assets, extra) ==
    [json |-> TRUE, has_assets |-> has_assets, assets |-> assets, extra |-> extra]

JsonAsset(name, browser_download_url) ==
    [name |-> name, browser_download_url |-> browser_download_url]

\* struct ForgejoAsset { name: String, browser_download_url: Url }
ForgejoAsset(name, browser_download_url) ==
    [name |-> name, browser_download_url |-> browser_download_url]

\* Deserialize for ForgejoAsset: both fields are required, and the URL must parse.
DeserializeAsset(e) ==
    IF ~e.name.some
    THEN Err("missing field name")
    ELSE IF ~e.browser_download_url.some
    THEN Err("missing field browser_download_url")
    ELSE LET u == Url_parse(e.browser_download_url.val)
         IN IF u.kind = "Err"
            THEN Err("invalid url")
            ELSE [kind |-> "Ok", asset |-> ForgejoAsset(e.name.val, u.url)]

RECURSIVE KeepOk(_)
KeepOk(ds) ==
    IF ds = <<>>
    THEN <<>>
    ELSE (IF Head(ds).kind = "Ok" THEN <<Head(ds).asset>> ELSE <<>>) \o KeepOk(Tail(ds))

\* Mutant: entries that do not decode are skipped.
DeserializeReleaseLenient(body) ==
    IF ~body.json
    THEN Err("expected value")
    ELSE IF ~body.has_assets
    THEN Err("missing field assets")
    ELSE [kind |-> "Ok",
          release |-> [assets |-> KeepOk([i \in 1..Len(body.assets) |->
                                             DeserializeAsset(body.assets[i])])]]

\* Deserialize for Release { assets: Vec<ForgejoAsset> }: every entry must decode.
DeserializeRelease(body) ==
    IF ~body.json
    THEN Err("expected value")
    ELSE IF ~body.has_assets
    THEN Err("missing field assets")
    ELSE LET ds == [i \in 1..Len(body.assets) |-> DeserializeAsset(body.assets[i])]
         IN IF \E i \in 1..Len(ds) : ds[i].kind = "Err"
            THEN Err("invalid asset")
            ELSE [kind |-> "Ok", release |-> [assets |-> [i \in 1..Len(ds) |-> ds[i].asset]]]

\* ubi::Asset { name, url }
Asset(name, url) == [name |-> name, url |-> url]

\* .map(|asset| Asset { name: asset.name, url: asset.browser_download_url })
ToAsset(asset) == Asset(asset.name, asset.browser_download_url)

\* Mutant: the assets are collected in reverse order.
MapCollectReversed(forgejo_assets) ==
    [i \in 1..Len(forgejo_assets) |->
        ToAsset(forgejo_assets[Len(forgejo_assets) + 1 - i])]

\* into_iter().map(..).collect()
MapCollect(forgejo_assets) ==
    [i \in 1..Len(forgejo_assets) |-> ToAsset(forgejo_assets[i])]

OkAssets(assets) == [kind |-> "Ok", assets |-> assets]

(***************************************************************************)
(* Forge::make_release_info_request (the trait's provided method): build   *)
(* the GET request at release_info_url(), route it through                 *)
(* maybe_add_token_header, send it; a transport failure or a non-2xx       *)
(* status is an error.  It is modelled in two halves, around the await.    *)
(***************************************************************************)
\* Before the await: the request to send, an error, or a panic.
build_release_info_request(f) ==
    LET u == release_info_url(f)
    IN IF u.kind = "Panic"
       THEN u
       ELSE maybe_add_token_header(f, RequestBuilder(u.url, <<>>))

is_success(status) == status >= 200 /\ status < 300

\* After the await: the response, or RequestFailed.
release_info_response(r) ==
    IF r.transport_error
    THEN Err("RequestFailed")
    ELSE IF ~is_success(r.status)
    THEN Err("RequestFailed")
    ELSE [kind |-> "Ok", body |-> r.body]

(***************************************************************************)
(* Forgejo::fetch_assets, after the request was sent and answered.         *)
(***************************************************************************)
\* Mutant: a failed request yields an empty asset list (unwrap_or_default).
fetch_assets_result_default(r) ==
    LET response == release_info_response(r)
    IN IF response.kind = "Err"
       THEN OkAssets(<<>>)
       ELSE LET release == DeserializeRelease(response.body)
            IN IF release.kind = "Err"
               THEN Err("DecodeFailed")
               ELSE OkAssets(MapCollect(release.release.assets))

fetch_assets_result(r) ==
    LET response == release_info_response(r)
    IN IF response.kind = "Err"
       THEN response
       ELSE LET release == DeserializeRelease(response.body)
            IN IF release.kind = "Err"
               THEN Err("DecodeFailed")
               ELSE OkAssets(MapCollect(release.release.assets))

(***************************************************************************)
(* The inputs of the model.                                                *)
(***************************************************************************)
\* Bytes of project names: 'o', '.', '/', '%'.
NameChars == {111, 46, 47, 37}

\* Bytes of tags: 'v', '.', '/'.
TagChars == {118, 46, 47}

\* Bytes of tokens: 'x', tab, line feed, DEL.
TokenChars == {120, 9, 10, 127}

\* "https://codeberg.org/api/v1", "https://codeberg.org", "https://codeberg.org/api/v1/", "mailto:forge"
BaseUrlStrings ==
    {<<104, 116, 116, 112, 115, 58, 47, 47, 104, 47, 97, 112, 105, 47, 118, 49>>,
     <<104, 116, 116, 112, 115, 58, 47, 47, 104>>,
     <<104, 116, 116, 112, 115, 58, 47, 47, 104, 47, 97, 112, 105, 47, 118, 49, 47>>,
     <<109, 97, 105, 108, 116, 111, 58, 104>>}

BaseUrls == {Url_parse(s).url : s \in BaseUrlStrings}

ApiV1 == Url_parse(<<104, 116, 116, 112, 115, 58, 47, 47, 104, 47, 97, 112, 105, 47, 118, 49>>).url

\* "o/r", "o", "o/r/x", "./r"
SampleNames ==
    {<<111, 47, 114>>, <<111>>, <<111, 47, 114, 47, 120>>, <<46, 47, 114>>}

Tags == {None} \cup {Some(t) : t \in StringsOver(TagChars, 0, MaxTagLen) \cup {LATEST}}

\* The instances release_info_url is checked on.
UrlInstances ==
    {new(p, None, u, None) : p \in StringsOver(NameChars, 0, MaxNameLen), u \in BaseUrls}
    \cup {new(p, t, u, None) : p \in SampleNames, t \in Tags, u \in BaseUrls}

\* The instances maybe_add_token_header is checked on.
TokenInstances ==
    {new(<<111, 47, 114>>, None, ApiV1, k) :
        k \in {None} \cup {Some(t) : t \in StringsOver(TokenChars, 0, MaxTokenLen)}}

\* The instances fetch_assets is checked on: tag "v1"; tokens "", "t", "a\tb"
\* and "t\n".
ForgeInstances ==
    {new(p, t, ApiV1, k) :
        p \in {<<111, 47, 114>>, <<111>>},
        t \in {None, Some(<<118, 49>>)},
        k \in {None, Some(<<>>), Some(<<116>>), Some(<<97, 9, 98>>), Some(<<116, 10>>)}}

\* "application/json"
AcceptJson == Header("accept", <<97, 112, 112, 108, 105, 99, 97, 116, 105, 111, 110, 47, 106, 115, 111, 110>>, FALSE)

\* The request builders handed to maybe_add_token_header: a GET of the
\* instance's release-info URL, with or without an Accept header.
Builders(f) ==
    {RequestBuilder(u, h) :
        u \in {ApiV1} \cup (IF release_info_url(f).kind = "Ok"
                            THEN {release_info_url(f).url} ELSE {}),
        h \in {<<>>, <<AcceptJson>>}}

\* Asset names "a" and "b"; URL strings "https://h/1", "HTTPS://H/2" and "/r".
JsonAssets ==
    {JsonAsset(Some(n), Some(u)) :
        n \in {<<97>>, <<98>>},
        u \in {<<104, 116, 116, 112, 115, 58, 47, 47, 104, 47, 49>>, <<72, 84, 84, 80, 83, 58, 47, 47, 72, 47, 50>>}}
    \cup {JsonAsset(None, Some(<<104, 116, 116, 112, 115, 58, 47, 47, 104, 47, 49>>)),
          JsonAsset(Some(<<97>>), None),
          JsonAsset(Some(<<97>>), Some(<<47, 114>>))}

Bodies ==
    {NotJson}
    \cup {JsonRelease(FALSE, <<>>, x) : x \in BOOLEAN}
    \cup {JsonRelease(TRUE, a, x) : a \in StringsOver(JsonAssets, 0, MaxAssets), x \in BOOLEAN}

\* The body of an error answer: not JSON, or a release with one asset.
ErrorBodies ==
    {NotJson,
     JsonRelease(TRUE, <<JsonAsset(Some(<<97>>), Some(<<104, 116, 116, 112, 115, 58, 47, 47, 104, 47, 49>>))>>, FALSE)}

Response(status, body) == [transport_error |-> FALSE, status |-> status, body |-> body]

TransportError == [transport_error |-> TRUE, status |-> 0, body |-> NotJson]

NoResponse == [transport_error |-> FALSE, status |-> 0, body |-> NotJson]

Responses ==
    {TransportError}
    \cup {Response(st, bd) : st \in {200, 204}, bd \in Bodies}
    \cup {Response(st, bd) : st \in {304, 404, 500}, bd \in ErrorBodies}

(***************************************************************************)
(* The state: the instance (immutable), where the caller is (idle, or      *)
(* inside fetch_assets awaiting or holding the answer, or panicked), the   *)
(* number of fetch_assets calls, the requests sent, the answer in flight,  *)
(* and what the last call returned.                                        *)
(***************************************************************************)
NoCall == [op |-> "none"]

InitWith(instances) ==
    /\ forge \in instances
    /\ pc = "idle"
    /\ calls = 0
    /\ sent = <<>>
    /\ resp = NoResponse
    /\ ret = NoCall

Init == InitWith(ForgeInstances)

InitUrl == InitWith(UrlInstances)

InitHdr == InitWith(TokenInstances)

\* A call of release_info_url.
ReleaseInfoUrl ==
    /\ pc = "idle"
    /\ ret' = [op |-> "release_info_url", res |-> release_info_url(forge)]
    /\ pc' = IF release_info_url(forge).kind = "Panic" THEN "panicked" ELSE "idle"
    /\ UNCHANGED <<forge, calls, sent, resp>>

\* A call of maybe_add_token_header on some request builder.
MaybeAddTokenHeader ==
    /\ pc = "idle"
    /\ \E rb \in Builders(forge) :
          ret' = [op |-> "maybe_add_token_header", arg |-> rb,
                  res |-> maybe_add_token_header(forge, rb)]
    /\ UNCHANGED <<forge, pc, calls, sent, resp>>

\* Mutant: the request is sent twice (a retry inside fetch_assets).
FetchAssetsCallRetrying ==
    /\ pc = "idle"
    /\ calls < MaxCalls
    /\ calls' = calls + 1
    /\ LET b == build_release_info_request(forge)
       IN /\ pc' = CASE b.kind = "Ok" -> "awaiting"
                     [] b.kind = "Err" -> "idle"
                     [] OTHER -> "panicked"
          /\ sent' = IF b.kind = "Ok" THEN sent \o <<b.req, b.req>> ELSE sent
          /\ ret' = [op |-> "fetch_assets", from |-> NoResponse,
                     res |-> IF b.kind = "Ok" THEN [kind |-> "Pending"] ELSE b]
    /\ UNCHANGED <<forge, resp>>

\* fetch_assets up to its first await: the request is built and sent, or the
\* call ends there with an error or a panic.
FetchAssetsCall ==
    /\ pc = "idle"
    /\ calls < MaxCalls
    /\ calls' = calls + 1
    /\ LET b == build_release_info_request(forge)
       IN /\ pc' = CASE b.kind = "Ok" -> "awaiting"
                     [] b.kind = "Err" -> "idle"
                     [] OTHER -> "panicked"
          /\ sent' = IF b.kind = "Ok" THEN Append(sent, b.req) ELSE sent
          /\ ret' = [op |-> "fetch_assets", from |-> NoResponse,
                     res |-> IF b.kind = "Ok" THEN [kind |-> "Pending"] ELSE b]
    /\ UNCHANGED <<forge, resp>>

\* The network: the server answers, or the transport fails.
ServerRespond ==
    /\ pc = "awaiting"
    /\ resp' \in Responses
    /\ pc' = "responded"
    /\ UNCHANGED <<forge, calls, sent, ret>>

\* fetch_assets from the answer to its return.
FetchAssetsReturn ==
    /\ pc = "responded"
    /\ ret' = [op |-> "fetch_assets", from |-> resp, res |-> fetch_assets_result(resp)]
    /\ resp' = NoResponse
    /\ pc' = "idle"
    /\ UNCHANGED <<forge, calls, sent>>

Next ==
    \/ ReleaseInfoUrl
    \/ MaybeAddTokenHeader
    \/ FetchAssetsCall
    \/ ServerRespond
    \/ FetchAssetsReturn

Spec == Init /\ [][Next]_vars

NextUrl == ReleaseInfoUrl

SpecUrl == InitUrl /\ [][NextUrl]_vars

NextHdr == MaybeAddTokenHeader

SpecHdr == InitHdr /\ [][NextHdr]_vars

(***************************************************************************)
(* What the properties below speak of.                                     *)
(***************************************************************************)
Parts == Split(forge.project_name, 47)

Owner == Parts[1]

Repo == Parts[2]

\* project_name is "owner/repo": exactly two '/'-separated segments.
WellFormed == Len(Parts) = 2

RECURSIVE JoinSlash(_)
JoinSlash(segs) ==
    IF Len(segs) = 1 THEN segs[1] ELSE segs[1] \o SLASH \o JoinSlash(Tail(segs))

\* The base URL's path followed by the segments, '/'-separated.
PathAfter(base, segs) ==
    base.path \o (IF base.path = SLASH THEN <<>> ELSE SLASH) \o JoinSlash(segs)

ReturnedUrl == ret.op = "release_info_url" /\ ret.res.kind = "Ok"

LatestPattern == SLASH \o JoinSlash(<<RELEASES, LATEST>>)

\* Neither owner nor repo is "." or "..", and the base URL has path segments.
Plain == ~IsDotSegment(Owner) /\ ~IsDotSegment(Repo) /\ ~forge.api_base_url.cannot_be_a_base

(***************************************************************************)
(* C1, as claimed: for a well-formed project_name and no tag, the path of  *)
(* release_info_url() ends with /repos/{owner}/{repo}/releases/latest,     *)
(* appended after the base URL's path.  It is read in the claim's favour:  *)
(* the base URL has path segments, and {owner} and {repo} stand for the    *)
(* percent-encoded segments.  The code still does not do this when owner   *)
(* or repo is "." or "..": push ignores such a segment.                    *)
(***************************************************************************)
C1_AsClaimed ==
    (ret.op = "release_info_url" /\ WellFormed /\ ~forge.tag.some
       /\ ~forge.api_base_url.cannot_be_a_base)
    => /\ ret.res.kind = "Ok"
       /\ IsPrefix(forge.api_base_url.path, ret.res.url.path)
       /\ IsSuffix(SLASH \o JoinSlash(<<REPOS, PercentEncode(Owner), PercentEncode(Repo),
                                        RELEASES, LATEST>>),
                   ret.res.url.path)

(***************************************************************************)
(* C1, amended: for a well-formed project_name whose owner and repo are    *)
(* neither "." nor "..", a base URL that can be a base and no tag,         *)
(* release_info_url() returns the base URL with exactly the segments       *)
(* repos, owner, repo, releases, latest appended in that order after its   *)
(* path, owner and repo percent-encoded as path segments (unchanged when   *)
(* they hold no byte of the encode set).                                   *)
(***************************************************************************)
C1_LatestUrl ==
    (ret.op = "release_info_url" /\ WellFormed /\ Plain /\ ~forge.tag.some)
    => /\ ret.res.kind = "Ok"
       /\ ret.res.url.prefix = forge.api_base_url.prefix
       /\ ret.res.url.path =
            PathAfter(forge.api_base_url,
                      <<REPOS, PercentEncode(Owner), PercentEncode(Repo), RELEASES, LATEST>>)
       /\ (\A i \in 1..Len(forge.project_name) : ~InPathSegmentSet(forge.project_name[i]) \/ forge.project_name[i] = 47)
            => IsSuffix(SLASH \o JoinSlash(<<REPOS, Owner, Repo, RELEASES, LATEST>>),
                        ret.res.url.path)

\* A latest URL was returned for an owner holding a byte that is encoded.
C1_Witness ==
    /\ ReturnedUrl /\ WellFormed /\ Plain /\ ~forge.tag.some
    /\ Owner = <<111, 37>> /\ Repo = <<111>>
    /\ forge.api_base_url.path # SLASH

(***************************************************************************)
(* C2, as claimed: for a well-formed instance with a non-empty tag t, the  *)
(* path ends with /repos/{owner}/{repo}/releases/tags/{t} and does not     *)
(* match the latest pattern.  Read in the claim's favour as for C1 (a base *)
(* URL with path segments, owner and repo not "." or "..", segments        *)
(* percent-encoded), the code still does not do the first for a tag "."    *)
(* or "..", which push ignores: the path then ends with /releases/tags.    *)
(***************************************************************************)
C2_AsClaimed ==
    (ret.op = "release_info_url" /\ WellFormed /\ Plain
       /\ forge.tag.some /\ forge.tag.val # <<>>)
    => /\ ret.res.kind = "Ok"
       /\ IsSuffix(SLASH \o JoinSlash(<<REPOS, PercentEncode(Owner), PercentEncode(Repo),
                                        RELEASES, TAGS, PercentEncode(forge.tag.val)>>),
                   ret.res.url.path)
       /\ ~IsSuffix(LatestPattern, ret.res.url.path)

(***************************************************************************)
(* C2, amended: for a well-formed instance (owner and repo not "." or      *)
(* "..", base URL with path segments) with a tag t that is not "." or      *)
(* "..", the path is the base path followed by                             *)
(* repos/owner/repo/releases/tags/t, each of owner, repo and t             *)
(* percent-encoded as a path segment; and whatever the tag, a returned     *)
(* URL ends with /releases/latest exactly when tag is None: the branch is  *)
(* chosen by Some/None alone.                                              *)
(***************************************************************************)
C2_TagUrl ==
    /\ (ret.op = "release_info_url" /\ WellFormed /\ Plain
          /\ forge.tag.some /\ ~IsDotSegment(forge.tag.val))
       => /\ ret.res.kind = "Ok"
          /\ ret.res.url.prefix = forge.api_base_url.prefix
          /\ ret.res.url.path =
               PathAfter(forge.api_base_url,
                         <<REPOS, PercentEncode(Owner), PercentEncode(Repo), RELEASES,
                           TAGS, PercentEncode(forge.tag.val)>>)
    /\ ReturnedUrl => (IsSuffix(LatestPattern, ret.res.url.path) <=> ~forge.tag.some)

\* A tag URL was returned for the tag "v/", which holds a byte that is encoded.
C2_Witness ==
    /\ ReturnedUrl /\ WellFormed /\ Plain
    /\ forge.tag.some /\ forge.tag.val = <<118, 47>>

(***************************************************************************)
(* C9, as claimed: a project_name that is not exactly two segments makes   *)
(* release_info_url return an InvalidProjectName error.                    *)
(***************************************************************************)
C9_AsClaimed ==
    (ret.op = "release_info_url" /\ ~WellFormed)
    => ret.res.kind = "Err" /\ ret.res.err = "InvalidProjectName"

\* The instance with only the first two segments of its project_name.
FirstTwo == [forge EXCEPT !.project_name = Parts[1] \o SLASH \o Parts[2]]

(***************************************************************************)
(* C9, amended: release_info_url never returns an error.  With a           *)
(* project_name without '/', it panics (unwrap on None) and builds no URL; *)
(* with more than two segments it ignores the segments after the second    *)
(* and returns the URL of the first two (or panics when the base URL       *)
(* cannot be a base).                                                      *)
(***************************************************************************)
C9_Malformed ==
    ret.op = "release_info_url"
    => /\ ret.res.kind # "Err"
       /\ Len(Parts) < 2 => ret.res.kind = "Panic" /\ pc = "panicked"
       /\ Len(Parts) > 2 => ret.res = release_info_url(FirstTwo)

\* A URL was returned for "o/r/x", and a call panicked on "o".
C9_Witness ==
    \/ ReturnedUrl /\ forge.project_name = <<111, 47, 114, 47, 120>>
    \/ ret.op = "release_info_url" /\ ret.res.kind = "Panic" /\ forge.project_name = <<111>>

(***************************************************************************)
(* Authorization headers and tokens.                                       *)
(***************************************************************************)
\* The positions of a request's Authorization headers.
AuthHeaders(rb) == {i \in 1..Len(rb.headers) : rb.headers[i].name = AUTHORIZATION}

\* The bytes an HTTP header value may not hold: the controls but the tab.
IllegalHeaderBytes == (0..8) \cup (10..31) \cup {127}

Encodable(t) == \A i \in 1..Len(t) : t[i] \notin IllegalHeaderBytes

\* The request carries exactly one Authorization header, "token " then the token.
CarriesToken(rb) ==
    /\ Cardinality(AuthHeaders(rb)) = 1
    /\ \A i \in AuthHeaders(rb) : rb.headers[i].value = TOKEN_PREFIX \o forge.token.val

(***************************************************************************)
(* C3: when the instance holds a token that is encodable as a header       *)
(* value, the request maybe_add_token_header returns, and every request    *)
(* fetch_assets sends, carries exactly one Authorization header, whose     *)
(* value is "token " followed by the token, byte for byte.                 *)
(***************************************************************************)
C3_TokenHeader ==
    (forge.token.some /\ Encodable(forge.token.val))
    => /\ ret.op = "maybe_add_token_header"
            => ret.res.kind = "Ok" /\ CarriesToken(ret.res.req)
       /\ \A k \in 1..Len(sent) : CarriesToken(sent[k])

\* With the token "a\tb", fetch_assets has sent a request and
\* maybe_add_token_header has been called on a builder with an Accept header.
C3_Witness ==
    /\ forge.token = Some(<<97, 9, 98>>)
    /\ Len(sent) >= 1
    /\ ret.op = "maybe_add_token_header"
    /\ ret.arg.headers # <<>>

(***************************************************************************)
(* C4: when the instance holds no token, maybe_add_token_header returns    *)
(* Ok with the request it was given, unchanged, so without an              *)
(* Authorization header, and no request fetch_assets sends has one.        *)
(***************************************************************************)
C4_NoToken ==
    ~forge.token.some
    => /\ ret.op = "maybe_add_token_header"
            => /\ ret.res = OkBuilder(ret.arg)
               /\ AuthHeaders(ret.res.req) = {}
       /\ \A k \in 1..Len(sent) : AuthHeaders(sent[k]) = {}

\* Without a token, a request was sent and maybe_add_token_header was called.
C4_Witness ==
    /\ ~forge.token.some
    /\ Len(sent) >= 1
    /\ ret.op = "maybe_add_token_header"
    /\ ret.arg.headers # <<>>

(***************************************************************************)
(* C10: maybe_add_token_header fails exactly when the instance holds a     *)
(* token that is not encodable as a header value; the failure is the       *)
(* InvalidToken error and nothing else (no request comes with it); a       *)
(* request that is returned holds the headers it was given and, with a     *)
(* token, the exact Authorization header after them; nothing is sent.      *)
(***************************************************************************)
C10_InvalidToken ==
    ret.op = "maybe_add_token_header"
    => /\ ret.res.kind = "Err" <=> (forge.token.some /\ ~Encodable(forge.token.val))
       /\ ret.res.kind = "Err" => ret.res = Err("InvalidToken")
       /\ ret.res.kind = "Ok" =>
            /\ ret.res.req.url = ret.arg.url
            /\ SubSeq(ret.res.req.headers, 1, Len(ret.arg.headers)) = ret.arg.headers
            /\ \A i \in AuthHeaders(ret.res.req) :
                  ret.res.req.headers[i].value = TOKEN_PREFIX \o forge.token.val
       /\ sent = <<>> /\ resp = NoResponse /\ calls = 0 /\ pc = "idle"

\* The call failed on a token holding a line feed after valid bytes, tab included.
C10_Witness ==
    /\ ret.op = "maybe_add_token_header"
    /\ ret.res.kind = "Err"
    /\ forge.token = Some(<<120, 9, 10>>)

(***************************************************************************)
(* Answers and their decoding.                                             *)
(***************************************************************************)
\* fetch_assets has returned after an answer (or a transport failure).
Answered == ret.op = "fetch_assets" /\ ret.from # NoResponse

Success2xx == ~ret.from.transport_error /\ ret.from.status \in 200..299

\* The strings that are absolute URLs.
IsAbsoluteUrl(str) == Url_parse(str).kind = "Ok"

\* An asset entry with a name and an absolute browser_download_url.
ValidEntry(e) ==
    /\ e.name.some
    /\ e.browser_download_url.some
    /\ IsAbsoluteUrl(e.browser_download_url.val)

\* A JSON body with an assets array of valid entries.
ValidBody(b) ==
    /\ b.json
    /\ b.has_assets
    /\ \A i \in 1..Len(b.assets) : ValidEntry(b.assets[i])

(***************************************************************************)
(* C5: after a 2xx answer whose body has an assets array of N entries,     *)
(* fetch_assets returns exactly N assets, the i-th with the name and the   *)
(* URL of the i-th entry (the URL its browser_download_url string          *)
(* denotes), in the array's order, whatever other fields the body holds.   *)
(***************************************************************************)
C5_RoundTrip ==
    (Answered /\ Success2xx /\ ValidBody(ret.from.body))
    => /\ ret.res.kind = "Ok"
       /\ Len(ret.res.assets) = Len(ret.from.body.assets)
       /\ \A i \in 1..Len(ret.from.body.assets) :
            /\ ret.res.assets[i].name = ret.from.body.assets[i].name.val
            /\ ret.res.assets[i].url =
                  Url_parse(ret.from.body.assets[i].browser_download_url.val).url

\* Two different assets were returned from a body that holds other fields too.
C5_Witness ==
    /\ Answered /\ Success2xx /\ ValidBody(ret.from.body)
    /\ ret.from.body.extra
    /\ ret.res.kind = "Ok"
    /\ Len(ret.res.assets) = 2
    /\ ret.res.assets[1].name # ret.res.assets[2].name
    /\ ret.res.assets[1].url # ret.res.assets[2].url

(***************************************************************************)
(* C6: after a transport failure or a non-2xx answer, fetch_assets returns *)
(* the RequestFailed error and no assets, whatever the body of the answer. *)
(***************************************************************************)
C6_RequestFailed ==
    (Answered /\ ~Success2xx) => ret.res = Err("RequestFailed")

\* A 404 whose body is a well-formed release was answered with the error.
C6_Witness ==
    /\ Answered
    /\ ret.from.status = 404
    /\ ValidBody(ret.from.body) /\ Len(ret.from.body.assets) = 1
    /\ ret.res.kind = "Err"

(***************************************************************************)
(* C7: after a 2xx answer whose body is not JSON, or lacks the assets      *)
(* array, or holds an entry without name, without browser_download_url or  *)
(* with one that is not an absolute URL, fetch_assets returns the          *)
(* DecodeFailed error and no assets at all.                                *)
(***************************************************************************)
C7_DecodeFailed ==
    (Answered /\ Success2xx /\ ~ValidBody(ret.from.body))
    => ret.res = Err("DecodeFailed")

\* The body's first entry decodes and its second has a relative URL.
C7_Witness ==
    /\ Answered /\ Success2xx
    /\ ret.from.body.json /\ ret.from.body.has_assets
    /\ Len(ret.from.body.assets) = 2
    /\ ValidEntry(ret.from.body.assets[1])
    /\ ret.from.body.assets[2].browser_download_url.some
    /\ ~IsAbsoluteUrl(ret.from.body.assets[2].browser_download_url.val)
    /\ ret.res.kind = "Err"

(***************************************************************************)
(* C8, as claimed: k calls of fetch_assets produce exactly k requests,     *)
(* whether the calls succeed or fail.  It is read in the claim's favour,   *)
(* for a well-formed project_name only; the code still sends nothing when  *)
(* the token is not encodable: the call fails before the request is sent.  *)
(***************************************************************************)
C8_AsClaimed == WellFormed => Len(sent) = calls

\* The request can be built: project_name has an owner and a repo, the base
\* URL has path segments, and the token, if any, is encodable.
Sendable ==
    /\ Len(Parts) >= 2
    /\ ~forge.api_base_url.cannot_be_a_base
    /\ forge.token.some => Encodable(forge.token.val)

(***************************************************************************)
(* C8, amended: every fetch_assets call on an instance whose request can   *)
(* be built (project_name with an owner and a repo, token absent or        *)
(* encodable) issues exactly one request, a GET of release_info_url(),     *)
(* whether the call then succeeds or fails, so k calls produce exactly k   *)
(* requests; a call on any other instance fails before sending and issues  *)
(* none.  No call is retried or served from a cache.                       *)
(***************************************************************************)
C8_OneRequestPerCall ==
    /\ Sendable => Len(sent) = calls
    /\ ~Sendable => sent = <<>>
    /\ \A k \in 1..Len(sent) :
          /\ sent[k].method = "GET"
          /\ sent[k].url = release_info_url(forge).url

\* Two calls were made and answered, the last one with an error.
C8_Witness ==
    /\ calls = 2
    /\ Len(sent) = 2
    /\ Answered
    /\ ret.res.kind = "Err"

====
